---- MODULE Spec2Model ----
(***************************************************************************)
(* Model of the Submarine controller (submarine-cloud-v2/controller.go):   *)
(* the rate limited work queue held by Controller.workqueue, the           *)
(* notification path enqueueSubmarine, Controller.Run and the worker loop  *)
(* runWorker / processNextWorkItem / syncHandler.                          *)
(*                                                                         *)
(* A key is a string; it is modelled as the sequence of its tokens, where  *)
(* a token is either the separator "/" or a name, which holds no "/".      *)
(***************************************************************************)
EXTENDS Naturals, Sequences, FiniteSets

\* The number of workers Run is asked to launch (its parameter threadiness).
Threadiness == 2

Workers == 1..Threadiness

Sep == "/"

NoKey == <<>>

\* The objects a notification may carry: Submarine resources (one of them in
\* two versions), a key given as is (cache.ExplicitKey) that does not split
\* into namespace/name, and an object with no metadata.
Objects ==
  { [kind |-> "Submarine", namespace |-> "ns", name |-> "a", resourceVersion |-> "1",
     key |-> NoKey],
    [kind |-> "Submarine", namespace |-> "ns", name |-> "a", resourceVersion |-> "2",
     key |-> NoKey],
    [kind |-> "Submarine", namespace |-> "ns", name |-> "b", resourceVersion |-> "1",
     key |-> NoKey],
    [kind |-> "ExplicitKey", namespace |-> "", name |-> "", resourceVersion |-> "",
     key |-> <<"x", Sep, "y", Sep, "z">>],
    [kind |-> "Other", namespace |-> "", name |-> "", resourceVersion |-> "",
     key |-> NoKey] }

\* An update notification carries two versions of one resource.
SameResource(old, new) ==
  /\ old.kind = new.kind
  /\ old.namespace = new.namespace
  /\ old.name = new.name
  /\ old.key = new.key

\* cache.MetaNamespaceKeyFunc: an explicit key is returned as is; an object
\* without metadata is an error; otherwise namespace/name, or name alone when
\* the namespace is empty.
MetaNamespaceKeyFunc(o) ==
  IF o.kind = "ExplicitKey" THEN [err |-> FALSE, key |-> o.key]
  ELSE IF o.kind # "Submarine" THEN [err |-> TRUE, key |-> NoKey]
  ELSE IF o.namespace # "" THEN [err |-> FALSE, key |-> <<o.namespace, Sep, o.name>>]
  ELSE [err |-> FALSE, key |-> <<o.name>>]

Keys == { MetaNamespaceKeyFunc(o).key : o \in { x \in Objects : ~MetaNamespaceKeyFunc(x).err } }

\* strings.Split(key, "/"): the parts between the separators.
RECURSIVE SplitParts(_, _, _)
SplitParts(s, cur, acc) ==
  IF s = <<>> THEN Append(acc, cur)
  ELSE IF Head(s) = Sep THEN SplitParts(Tail(s), <<>>, Append(acc, cur))
  ELSE SplitParts(Tail(s), Append(cur, Head(s)), acc)

\* cache.SplitMetaNamespaceKey: one part is a name with an empty namespace, two
\* parts are namespace and name, anything else is an error.
SplitMetaNamespaceKey(key) ==
  LET parts == SplitParts(key, <<>>, <<>>) IN
  IF Len(parts) = 1 THEN [err |-> FALSE, namespace |-> <<>>, name |-> parts[1]]
  ELSE IF Len(parts) = 2 THEN [err |-> FALSE, namespace |-> parts[1], name |-> parts[2]]
  ELSE [err |-> TRUE, namespace |-> <<>>, name |-> <<>>]

VARIABLES
  queue,        \* workqueue: the keys waiting for a worker, in order
  dirty,        \* workqueue: the keys that need processing
  processing,   \* workqueue: the keys handed out by Get and not yet Done
  shuttingDown, \* workqueue: ShutDown has been called
  failures,     \* rate limiter: the number of requeues recorded per key
  synced,       \* submarinesSynced(): the informer cache has synced
  stopClosed,   \* stopCh is closed
  runPc,        \* where Run is
  runOk,        \* Run: what WaitForCacheSync returned
  runErr,       \* what Run returned
  nextWorker,   \* Run: the loop counter i of the worker launch loop
  pc,           \* where each worker goroutine is
  obj,          \* processNextWorkItem: the item Get returned
  outcome,      \* syncHandler: what the key and the lookup came to
  calls,        \* the queue operations a worker made for its current item
  crashed,      \* the process died of a panic
  addCalls      \* per key: the Add calls made since Get last returned it

vars == <<queue, dirty, processing, shuttingDown, failures, synced, stopClosed,
          runPc, runOk, runErr, nextWorker, pc, obj, outcome, calls, crashed,
          addCalls>>

queueVars == <<queue, dirty, processing, shuttingDown>>
runVars == <<runPc, runOk, runErr, nextWorker>>
workerVars == <<pc, obj, outcome, calls>>

Range(s) == { s[n] : n \in 1..Len(s) }

Occurrences(s, k) == Cardinality({ n \in 1..Len(s) : s[n] = k })

Init ==
  /\ queue = <<>>
  /\ dirty = {}
  /\ processing = {}
  /\ shuttingDown = FALSE
  /\ failures = [k \in Keys |-> 0]
  /\ synced = FALSE
  /\ stopClosed = FALSE
  /\ runPc = "created"
  /\ runOk = "unset"
  /\ runErr = "unset"
  /\ nextWorker = 0
  /\ pc = [w \in Workers |-> "notStarted"]
  /\ obj = [w \in Workers |-> NoKey]
  /\ outcome = [w \in Workers |-> "none"]
  /\ calls = [w \in Workers |-> <<>>]
  /\ crashed = FALSE
  /\ addCalls = [k \in Keys |-> "none"]

(***************************************************************************)
(* The work queue (workqueue.RateLimitingInterface held by the controller) *)
(***************************************************************************)

\* Add(key): ignored once the queue is shutting down or when the key is already
\* marked; otherwise the key is marked dirty and, unless a worker holds it,
\* appended to the waiting keys.
WorkqueueAdd(k) ==
  IF shuttingDown \/ k \in dirty
  THEN UNCHANGED queueVars
  ELSE /\ dirty' = dirty \cup {k}
       /\ queue' = IF k \in processing THEN queue ELSE Append(queue, k)
       /\ UNCHANGED <<processing, shuttingDown>>

\* Get() can return: a key is waiting, or the queue is shutting down.
WorkqueueGetReady == queue # <<>> \/ shuttingDown

\* Get() returning the first waiting key: it becomes processing and is no
\* longer dirty.
WorkqueueGet ==
  /\ queue' = Tail(queue)
  /\ processing' = processing \cup {Head(queue)}
  /\ dirty' = dirty \ {Head(queue)}
  /\ UNCHANGED shuttingDown

\* Done(key): the key is no longer processing; a key marked dirty meanwhile
\* goes back to the waiting keys.
WorkqueueDone(k) ==
  /\ processing' = processing \ {k}
  /\ queue' = IF k \in dirty THEN Append(queue, k) ELSE queue
  /\ UNCHANGED <<dirty, shuttingDown>>

\* Forget(key): the rate limiter stops tracking the key.
WorkqueueForget(k) == failures' = [failures EXCEPT ![k] = 0]

\* ShutDown(): the queue takes no more keys; blocked Get callers wake up.
WorkqueueShutDown ==
  /\ shuttingDown' = TRUE
  /\ UNCHANGED <<queue, dirty, processing>>

(***************************************************************************)
(* The notification path                                                   *)
(***************************************************************************)

\* What is remembered of the Add calls made for a key since Get last returned
\* it: none, only calls made after ShutDown, or at least one made before it.
NoteAdd(seen, shut) ==
  IF ~shut THEN "accepted"
  ELSE IF seen = "none" THEN "afterShutDown" ELSE seen

\* enqueueSubmarine(obj): derive the key and Add it; an object that yields no
\* key is reported and nothing is added.
enqueueSubmarine(o) ==
  LET r == MetaNamespaceKeyFunc(o) IN
  /\ ~crashed
  /\ IF r.err
     THEN UNCHANGED <<queueVars, addCalls>>
     ELSE /\ WorkqueueAdd(r.key)
          /\ addCalls' = [addCalls EXCEPT ![r.key] = NoteAdd(@, shuttingDown)]
  /\ UNCHANGED <<failures, synced, stopClosed, runVars, workerVars, crashed>>

\* The informer's AddFunc.
AddFunc(o) == enqueueSubmarine(o)

\* Faulty variant: an update whose two versions carry the same resourceVersion
\* (a periodic resync) is skipped.
UpdateFuncIfChanged(old, new) ==
  IF old.resourceVersion = new.resourceVersion
  THEN ~crashed /\ UNCHANGED vars
  ELSE enqueueSubmarine(new)

\* The informer's UpdateFunc: the new object is enqueued, the old one is not
\* looked at.
UpdateFunc(old, new) == enqueueSubmarine(new)

\* The informer cache finishes its initial listing.
CacheSynced ==
  /\ ~crashed
  /\ ~synced
  /\ synced' = TRUE
  /\ UNCHANGED <<queueVars, failures, stopClosed, runVars, workerVars, crashed, addCalls>>

\* The caller closes stopCh.
CloseStopCh ==
  /\ ~crashed
  /\ ~stopClosed
  /\ stopClosed' = TRUE
  /\ UNCHANGED <<queueVars, failures, synced, runVars, workerVars, crashed, addCalls>>

(***************************************************************************)
(* Controller.Run                                                          *)
(***************************************************************************)

\* Run is called: its deferred calls are registered and it starts waiting for
\* the cache.
RunBegin ==
  /\ ~crashed
  /\ runPc = "created"
  /\ runPc' = "waitSync"
  /\ UNCHANGED <<queueVars, failures, synced, stopClosed, runOk, runErr, nextWorker,
                 workerVars, crashed, addCalls>>

\* Faulty variant: Run goes on to the workers without the cache having synced.
RunCacheSyncIgnored ==
  /\ ~crashed
  /\ runPc = "waitSync"
  /\ runOk' = "true"
  /\ runPc' = "helmInstall"
  /\ UNCHANGED <<queueVars, failures, synced, stopClosed, runErr, nextWorker,
                 workerVars, crashed, addCalls>>

\* cache.WaitForCacheSync returns true: the cache has synced.
RunCacheSyncOk ==
  /\ ~crashed
  /\ runPc = "waitSync"
  /\ synced
  /\ runOk' = "true"
  /\ runPc' = "helmInstall"
  /\ UNCHANGED <<queueVars, failures, synced, stopClosed, runErr, nextWorker,
                 workerVars, crashed, addCalls>>

\* Faulty variant: ShutDown is deferred only after the wait for the cache, so
\* the failed wait returns without it.
RunCacheSyncFailedNoShutDown ==
  /\ ~crashed
  /\ runPc = "waitSync"
  /\ stopClosed
  /\ runOk' = "false"
  /\ runErr' = "error"
  /\ runPc' = "returned"
  /\ UNCHANGED <<queueVars, failures, synced, stopClosed, nextWorker, workerVars,
                 crashed, addCalls>>

\* cache.WaitForCacheSync returns false (stopCh closed first): Run returns an
\* error, and its deferred ShutDown runs.
RunCacheSyncFailed ==
  /\ ~crashed
  /\ runPc = "waitSync"
  /\ stopClosed
  /\ runOk' = "false"
  /\ runErr' = "error"
  /\ runPc' = "returned"
  /\ WorkqueueShutDown
  /\ UNCHANGED <<failures, synced, stopClosed, nextWorker, workerVars, crashed, addCalls>>

\* The example's helm.HelmInstall.
RunHelmInstall ==
  /\ ~crashed
  /\ runPc = "helmInstall"
  /\ runPc' = "helmSleep"
  /\ UNCHANGED <<queueVars, failures, synced, stopClosed, runOk, runErr, nextWorker,
                 workerVars, crashed, addCalls>>

\* The example's sleep of 60 seconds.
RunHelmSleep ==
  /\ ~crashed
  /\ runPc = "helmSleep"
  /\ runPc' = "helmUninstall"
  /\ UNCHANGED <<queueVars, failures, synced, stopClosed, runOk, runErr, nextWorker,
                 workerVars, crashed, addCalls>>

\* The example's helm.HelmUninstall; Run then reaches the worker launch loop.
RunHelmUninstall ==
  /\ ~crashed
  /\ runPc = "helmUninstall"
  /\ runPc' = "startWorkers"
  /\ UNCHANGED <<queueVars, failures, synced, stopClosed, runOk, runErr, nextWorker,
                 workerVars, crashed, addCalls>>

\* One turn of the launch loop: go wait.Until(c.runWorker, time.Second, stopCh).
RunStartWorker ==
  /\ ~crashed
  /\ runPc = "startWorkers"
  /\ nextWorker < Threadiness
  /\ nextWorker' = nextWorker + 1
  /\ pc' = [pc EXCEPT ![nextWorker + 1] = "until"]
  /\ UNCHANGED <<queueVars, failures, synced, stopClosed, runPc, runOk, runErr,
                 obj, outcome, calls, crashed, addCalls>>

\* The launch loop ends: Run blocks on stopCh.
RunStartedWorkers ==
  /\ ~crashed
  /\ runPc = "startWorkers"
  /\ nextWorker >= Threadiness
  /\ runPc' = "waitStop"
  /\ UNCHANGED <<queueVars, failures, synced, stopClosed, runOk, runErr, nextWorker,
                 workerVars, crashed, addCalls>>

\* Faulty variant: Run returns nil without shutting the queue down.
RunStoppedNoShutDown ==
  /\ ~crashed
  /\ runPc = "waitStop"
  /\ stopClosed
  /\ runErr' = "nil"
  /\ runPc' = "returned"
  /\ UNCHANGED <<queueVars, failures, synced, stopClosed, runOk, nextWorker,
                 workerVars, crashed, addCalls>>

\* stopCh is closed: Run returns nil, and its deferred ShutDown runs.
RunStopped ==
  /\ ~crashed
  /\ runPc = "waitStop"
  /\ stopClosed
  /\ runErr' = "nil"
  /\ runPc' = "returned"
  /\ WorkqueueShutDown
  /\ UNCHANGED <<failures, synced, stopClosed, runOk, nextWorker, workerVars,
                 crashed, addCalls>>

(***************************************************************************)
(* The workers                                                             *)
(***************************************************************************)

\* wait.Until: stop when stopCh is closed, else call runWorker (again).
WaitUntil(w) ==
  /\ ~crashed
  /\ pc[w] = "until"
  /\ pc' = [pc EXCEPT ![w] = IF stopClosed THEN "exited" ELSE "get"]
  /\ UNCHANGED <<queueVars, failures, synced, stopClosed, runVars, obj, outcome,
                 calls, crashed, addCalls>>

\* Faulty variant: Done is called as soon as Get has returned, not deferred around
\* syncHandler.
GetDoneAtOnce(w) ==
  /\ ~crashed
  /\ pc[w] = "get"
  /\ WorkqueueGetReady
  /\ IF queue = <<>>
     THEN /\ pc' = [pc EXCEPT ![w] = "until"]
          /\ UNCHANGED <<queueVars, obj, outcome, calls, addCalls>>
     ELSE /\ queue' = Tail(queue)
          /\ dirty' = dirty \ {Head(queue)}
          /\ UNCHANGED <<processing, shuttingDown>>
          /\ obj' = [obj EXCEPT ![w] = Head(queue)]
          /\ outcome' = [outcome EXCEPT ![w] = "none"]
          /\ calls' = [calls EXCEPT ![w] = <<"Get", "Done">>]
          /\ addCalls' = [addCalls EXCEPT ![Head(queue)] = "none"]
          /\ pc' = [pc EXCEPT ![w] = "sync"]
  /\ UNCHANGED <<failures, synced, stopClosed, runVars, crashed>>

\* Faulty variant: processNextWorkItem gives up as soon as the queue is shutting
\* down, with keys still waiting.
GetNoDrain(w) ==
  /\ ~crashed
  /\ pc[w] = "get"
  /\ WorkqueueGetReady
  /\ IF queue = <<>> \/ shuttingDown
     THEN /\ pc' = [pc EXCEPT ![w] = "until"]
          /\ UNCHANGED <<queueVars, obj, outcome, calls, addCalls>>
     ELSE /\ WorkqueueGet
          /\ obj' = [obj EXCEPT ![w] = Head(queue)]
          /\ outcome' = [outcome EXCEPT ![w] = "none"]
          /\ calls' = [calls EXCEPT ![w] = <<"Get">>]
          /\ addCalls' = [addCalls EXCEPT ![Head(queue)] = "none"]
          /\ pc' = [pc EXCEPT ![w] = "sync"]
  /\ UNCHANGED <<failures, synced, stopClosed, runVars, crashed>>

\* Faulty variant: Get hands out a key only while no worker holds one, as if
\* the workers shared one lock around the whole of processNextWorkItem.
GetSerialized(w) ==
  /\ ~crashed
  /\ pc[w] = "get"
  /\ WorkqueueGetReady
  /\ processing = {}
  /\ IF queue = <<>>
     THEN /\ pc' = [pc EXCEPT ![w] = "until"]
          /\ UNCHANGED <<queueVars, obj, outcome, calls, addCalls>>
     ELSE /\ WorkqueueGet
          /\ obj' = [obj EXCEPT ![w] = Head(queue)]
          /\ outcome' = [outcome EXCEPT ![w] = "none"]
          /\ calls' = [calls EXCEPT ![w] = <<"Get">>]
          /\ addCalls' = [addCalls EXCEPT ![Head(queue)] = "none"]
          /\ pc' = [pc EXCEPT ![w] = "sync"]
  /\ UNCHANGED <<failures, synced, stopClosed, runVars, crashed>>

\* processNextWorkItem: Get. On shutdown it returns false and runWorker
\* returns; otherwise the worker holds the key and enters the deferred block.
Get(w) ==
  /\ ~crashed
  /\ pc[w] = "get"
  /\ WorkqueueGetReady
  /\ IF queue = <<>>
     THEN /\ pc' = [pc EXCEPT ![w] = "until"]
          /\ UNCHANGED <<queueVars, obj, outcome, calls, addCalls>>
     ELSE /\ WorkqueueGet
          /\ obj' = [obj EXCEPT ![w] = Head(queue)]
          /\ outcome' = [outcome EXCEPT ![w] = "none"]
          /\ calls' = [calls EXCEPT ![w] = <<"Get">>]
          /\ addCalls' = [addCalls EXCEPT ![Head(queue)] = "none"]
          /\ pc' = [pc EXCEPT ![w] = "sync"]
  /\ UNCHANGED <<failures, synced, stopClosed, runVars, crashed>>

\* What the lister can answer for a key.
LookupResults == {"found", "notFound", "lookupError"}

\* Faulty variant: the not-found branch does not return.
SyncLookupNoReturn(w) ==
  /\ ~crashed
  /\ pc[w] = "sync"
  /\ IF SplitMetaNamespaceKey(obj[w]).err
     THEN /\ outcome' = [outcome EXCEPT ![w] = "invalidKey"]
          /\ pc' = [pc EXCEPT ![w] = "forget"]
     ELSE \E res \in LookupResults :
            /\ outcome' = [outcome EXCEPT ![w] = res]
            /\ pc' = [pc EXCEPT ![w] = "print"]
  /\ UNCHANGED <<queueVars, failures, synced, stopClosed, runVars, obj, calls,
                 crashed, addCalls>>

\* Faulty variant: the error of SplitMetaNamespaceKey is ignored and the lookup
\* is made with whatever namespace and name came back.
SyncLookupIgnoresSplitError(w) ==
  /\ ~crashed
  /\ pc[w] = "sync"
  /\ \E res \in LookupResults :
       /\ outcome' = [outcome EXCEPT ![w] = res]
       /\ pc' = [pc EXCEPT ![w] = IF res = "notFound" THEN "forget" ELSE "print"]
  /\ UNCHANGED <<queueVars, failures, synced, stopClosed, runVars, obj, calls,
                 crashed, addCalls>>

\* syncHandler up to the lookup: a key that does not split is reported and
\* syncHandler returns; a resource that is not found is reported and
\* syncHandler returns; any other answer goes on to the printing of the spec.
SyncLookup(w) ==
  /\ ~crashed
  /\ pc[w] = "sync"
  /\ IF SplitMetaNamespaceKey(obj[w]).err
     THEN /\ outcome' = [outcome EXCEPT ![w] = "invalidKey"]
          /\ pc' = [pc EXCEPT ![w] = "forget"]
     ELSE \E res \in LookupResults :
            /\ outcome' = [outcome EXCEPT ![w] = res]
            /\ pc' = [pc EXCEPT ![w] = IF res = "notFound" THEN "forget" ELSE "print"]
  /\ UNCHANGED <<queueVars, failures, synced, stopClosed, runVars, obj, calls,
                 crashed, addCalls>>

\* syncHandler printing submarine.Spec: unless the lookup found the resource,
\* submarine is nil and reading its Spec panics; otherwise syncHandler returns
\* nil.
SyncPrint(w) ==
  /\ ~crashed
  /\ pc[w] = "print"
  /\ pc' = [pc EXCEPT ![w] = IF outcome[w] # "found" THEN "panic" ELSE "forget"]
  /\ UNCHANGED <<queueVars, failures, synced, stopClosed, runVars, obj, outcome,
                 calls, crashed, addCalls>>

\* Faulty variant: after syncHandler returned the worker also puts the key
\* back on the queue.
ForgetRequeues(w) ==
  /\ ~crashed
  /\ pc[w] = "forget"
  /\ WorkqueueForget(obj[w])
  /\ WorkqueueAdd(obj[w])
  /\ calls' = [calls EXCEPT ![w] = Append(@, "Forget")]
  /\ pc' = [pc EXCEPT ![w] = "done"]
  /\ UNCHANGED <<synced, stopClosed, runVars, obj, outcome, crashed, addCalls>>

\* processNextWorkItem after syncHandler returned: Forget, whatever it returned.
Forget(w) ==
  /\ ~crashed
  /\ pc[w] = "forget"
  /\ WorkqueueForget(obj[w])
  /\ calls' = [calls EXCEPT ![w] = Append(@, "Forget")]
  /\ pc' = [pc EXCEPT ![w] = "done"]
  /\ UNCHANGED <<queueVars, synced, stopClosed, runVars, obj, outcome, crashed, addCalls>>

\* Faulty variant: the block returns without any Done.
DoneMissing(w) ==
  /\ ~crashed
  /\ pc[w] = "done"
  /\ obj' = [obj EXCEPT ![w] = NoKey]
  /\ outcome' = [outcome EXCEPT ![w] = "none"]
  /\ calls' = [calls EXCEPT ![w] = <<>>]
  /\ pc' = [pc EXCEPT ![w] = "get"]
  /\ UNCHANGED <<queueVars, failures, synced, stopClosed, runVars, crashed, addCalls>>

\* Faulty variant: Done is called in the block and once more by the defer.
DoneTwice(w) ==
  /\ ~crashed
  /\ pc[w] = "done"
  /\ processing' = processing \ {obj[w]}
  /\ queue' = IF obj[w] \in dirty THEN Append(Append(queue, obj[w]), obj[w]) ELSE queue
  /\ UNCHANGED <<dirty, shuttingDown>>
  /\ obj' = [obj EXCEPT ![w] = NoKey]
  /\ outcome' = [outcome EXCEPT ![w] = "none"]
  /\ calls' = [calls EXCEPT ![w] = <<>>]
  /\ pc' = [pc EXCEPT ![w] = "get"]
  /\ UNCHANGED <<failures, synced, stopClosed, runVars, crashed, addCalls>>

\* The deferred Done as the block returns nil; processNextWorkItem returns
\* true and runWorker calls it again: the worker holds nothing any more.
Done(w) ==
  /\ ~crashed
  /\ pc[w] = "done"
  /\ WorkqueueDone(obj[w])
  /\ obj' = [obj EXCEPT ![w] = NoKey]
  /\ outcome' = [outcome EXCEPT ![w] = "none"]
  /\ calls' = [calls EXCEPT ![w] = <<>>]
  /\ pc' = [pc EXCEPT ![w] = "get"]
  /\ UNCHANGED <<failures, synced, stopClosed, runVars, crashed, addCalls>>

\* Faulty variant: Done is not deferred, so a panic skips it.
PanicNoDone(w) ==
  /\ ~crashed
  /\ pc[w] = "panic"
  /\ pc' = [pc EXCEPT ![w] = "crash"]
  /\ UNCHANGED <<queueVars, failures, synced, stopClosed, runVars, obj, outcome,
                 calls, crashed, addCalls>>

\* The deferred Done as the panic unwinds the block; the panic goes on through
\* processNextWorkItem and runWorker.
PanicDone(w) ==
  /\ ~crashed
  /\ pc[w] = "panic"
  /\ WorkqueueDone(obj[w])
  /\ calls' = [calls EXCEPT ![w] = Append(@, "Done")]
  /\ pc' = [pc EXCEPT ![w] = "crash"]
  /\ UNCHANGED <<failures, synced, stopClosed, runVars, obj, outcome, crashed, addCalls>>

\* The panic reaches wait.Until, whose crash handler logs it and then either
\* panics again, which ends the process, or (when told not to) lets wait.Until
\* go on to its next turn.
HandleCrash(w) ==
  /\ ~crashed
  /\ pc[w] = "crash"
  /\ \/ /\ crashed' = TRUE
        /\ UNCHANGED <<pc, obj, outcome, calls>>
     \/ /\ pc' = [pc EXCEPT ![w] = "until"]
        /\ obj' = [obj EXCEPT ![w] = NoKey]
        /\ outcome' = [outcome EXCEPT ![w] = "none"]
        /\ calls' = [calls EXCEPT ![w] = <<>>]
        /\ UNCHANGED crashed
  /\ UNCHANGED <<queueVars, failures, synced, stopClosed, runVars, addCalls>>

Worker(w) ==
  \/ WaitUntil(w)
  \/ Get(w)
  \/ SyncLookup(w)
  \/ SyncPrint(w)
  \/ Forget(w)
  \/ Done(w)
  \/ PanicDone(w)
  \/ HandleCrash(w)

RunStep ==
  \/ RunBegin
  \/ RunCacheSyncOk
  \/ RunCacheSyncFailed
  \/ RunHelmInstall
  \/ RunHelmSleep
  \/ RunHelmUninstall
  \/ RunStartWorker
  \/ RunStartedWorkers
  \/ RunStopped

Environment ==
  \/ \E o \in Objects : AddFunc(o)
  \/ \E old \in Objects, new \in Objects : SameResource(old, new) /\ UpdateFunc(old, new)
  \/ CacheSynced
  \/ CloseStopCh

Next ==
  \/ Environment
  \/ RunStep
  \/ \E w \in Workers : Worker(w)

Spec == Init /\ [][Next]_vars

\* Every step of Run and of a worker that can be taken is taken in the end;
\* nothing is assumed of the notifications, of the cache or of stopCh.
FairSpec ==
  /\ Spec
  /\ WF_vars(RunStep)
  /\ \A w \in Workers : WF_vars(Worker(w))

(***************************************************************************)
(* The properties                                                          *)
(***************************************************************************)

\* A worker is between a Get that returned a key and the Done of that key.
InBlock(w) == pc[w] \in {"sync", "print", "forget", "done", "panic"}

\* A worker is inside syncHandler.
InSyncHandler(w) == pc[w] \in {"sync", "print"}

\* A worker gives its key back in this step.
Releases(w) == InBlock(w) /\ obj[w] \in processing /\ obj[w] \notin processing'

\* C1: for every key, at most one worker is between the Get that returned the
\* key and its Done (so at most one worker runs syncHandler for it), whatever
\* the number of Add calls made meanwhile.
C1_OneWorkerPerKey ==
  \A w1 \in Workers, w2 \in Workers :
    (w1 # w2 /\ InBlock(w1) /\ InBlock(w2)) => obj[w1] # obj[w2]

\* C1 witness: a worker is inside syncHandler for a key that was added again
\* meanwhile, and another worker is blocked in Get with nothing handed to it.
C1_Witness ==
  \E w1 \in Workers, w2 \in Workers :
    /\ InSyncHandler(w1)
    /\ obj[w1] \in dirty
    /\ addCalls[obj[w1]] = "accepted"
    /\ pc[w2] = "get"
    /\ queue = <<>>

\* A key is held by a worker and Add was called for it, before any ShutDown,
\* since the Get that returned it.
AddedWhileProcessing(k) == k \in processing /\ addCalls[k] = "accepted"

\* A key has just been returned by Get, with no Add since.
Delivered(k) == k \in processing /\ addCalls[k] = "none"

\* C2: a key added while a worker holds it is returned by Get once more after
\* the Done, unless the queue is shut down or the process has died (no worker
\* calls Get any more).
C2_NoLostUpdate ==
  \A k \in Keys :
    AddedWhileProcessing(k) ~> (Delivered(k) \/ shuttingDown \/ crashed)

\* C2 witness: a key is added while a worker holds it, and the other worker
\* waits in Get.
C2_Witness ==
  \E k \in Keys, w \in Workers :
    /\ AddedWhileProcessing(k)
    /\ ~shuttingDown
    /\ pc[w] = "get"

\* C3 as amended: when Add was called, before any ShutDown, for a key a worker
\* holds, the Done of that key leaves the key waiting exactly once; and a Get
\* that returns a key leaves it neither waiting nor marked, so that without a
\* further Add it is not returned again.
C3_BurstCollapse ==
  [][\A k \in Keys :
       /\ (k \in processing /\ k \notin processing' /\ addCalls[k] = "accepted")
            => (Occurrences(queue', k) = 1 /\ k \in dirty')
       /\ (k \notin processing /\ k \in processing')
            => (k \notin Range(queue') /\ k \notin dirty')]_vars

\* C3 witness: Add was called for the key a worker holds, the key is marked
\* and not waiting, and the worker is about to call Done.
C3_Witness ==
  \E w \in Workers :
    /\ pc[w] = "done"
    /\ addCalls[obj[w]] = "accepted"
    /\ obj[w] \in dirty
    /\ obj[w] \notin Range(queue)

\* C3 as stated: whenever Add was called for a key a worker holds (before or
\* after ShutDown), the Done of that key leaves the key waiting exactly once.
C3_Original ==
  [][\A k \in Keys :
       (k \in processing /\ k \notin processing' /\ addCalls[k] # "none")
         => Occurrences(queue', k) = 1]_vars

\* C4: every key handed out by Get is held by a worker that is still inside
\* the block that ends with Done: a worker that has left the block, by return
\* or by panic, has called Done for its key before it can call Get again.
C4_DoneBeforeNextGet ==
  /\ \A k \in processing : \E w \in Workers : InBlock(w) /\ obj[w] = k
  /\ \A w \in Workers : pc[w] = "crash" => calls[w] = <<"Get", "Done">>

\* C4 witness: a worker's syncHandler has panicked and the worker's key is no
\* longer processing.
C4_Witness ==
  \E w \in Workers :
    /\ pc[w] = "crash"
    /\ obj[w] \in Keys
    /\ obj[w] \notin processing

\* C5 as stated: a worker whose lookup failed with an error other than
\* not-found has, when it gives the key back, rescheduled it through the rate
\* limiter (which counts the requeue).
C5_RetriableRequeued ==
  [][\A w \in Workers :
       (Releases(w) /\ outcome[w] = "lookupError") => failures'[obj[w]] > 0]_vars

\* C6: a worker whose lookup did not find the resource calls Forget and
\* nothing else before Done, the rate limiter holds no requeue of the key,
\* and after Done the key waits only if Add was called for it meanwhile.
C6_NotFoundForgotten ==
  [][\A w \in Workers :
       (Releases(w) /\ outcome[w] = "notFound")
         => /\ calls[w] = <<"Get", "Forget">>
            /\ failures'[obj[w]] = 0
            /\ (obj[w] \in Range(queue') => addCalls[obj[w]] = "accepted")]_vars

\* C6 witness: the lookup did not find the resource, Forget has been called
\* and Done is next.
C6_Witness ==
  \E w \in Workers :
    /\ pc[w] = "done"
    /\ outcome[w] = "notFound"
    /\ calls[w] = <<"Get", "Forget">>

\* C7 as stated (its counter): when the reconcile of a key ends, the key's
\* retry counter is one more than before after a retriable failure, and zero
\* after any other outcome.
C7_CounterFollowsOutcome ==
  [][\A w \in Workers :
       Releases(w)
         => failures'[obj[w]] = IF outcome[w] = "lookupError"
                                THEN failures[obj[w]] + 1
                                ELSE 0]_vars

\* C8: no worker is started, and so no syncHandler runs, unless the cache has
\* synced and WaitForCacheSync said so; when WaitForCacheSync fails, Run has
\* returned an error and no worker is started.
C8_SyncGate ==
  /\ \A w \in Workers : pc[w] # "notStarted" => (synced /\ runOk = "true")
  /\ runOk = "false"
       => (runPc = "returned" /\ runErr = "error"
           /\ \A w \in Workers : pc[w] = "notStarted")

\* C8 witness: a worker is inside syncHandler.
C8_Witness ==
  \E w \in Workers : InSyncHandler(w) /\ synced

\* C9 as stated: Run returns an error only when WaitForCacheSync failed; with
\* the workers started no reconcile outcome ends a worker loop or the
\* process, and Run returns nil once it has returned.
C9_OnlyStartupErrors ==
  /\ runErr = "error" => runOk = "false"
  /\ (runPc = "returned" /\ runOk = "true") => runErr = "nil"
  /\ ~crashed
  /\ \A w \in Workers : pc[w] # "crash"

\* C10 as stated: a panic inside syncHandler is caught in the worker: the key
\* is given back and rescheduled through the rate limiter, and the worker
\* goes on to its next Get.
C10_PanicRecovered ==
  [][\A w \in Workers :
       (pc[w] = "panic" /\ pc'[w] # "panic")
         => /\ pc'[w] = "get"
            /\ obj[w] \notin processing'
            /\ failures'[obj[w]] = failures[obj[w]] + 1]_vars

\* A worker goroutine is over, or was never started.
WorkerGone(w) == pc[w] \in {"notStarted", "exited"}

\* C11 as amended: Get tells a worker of the shutdown only when the queue is
\* shutting down and no key is waiting, so a worker inside its loop is handed
\* every waiting key before it leaves the loop through Get; and once the queue
\* is shutting down every worker goroutine ends (or the process has died).
C11_DrainThenExit ==
  /\ [][\A w \in Workers :
          (pc[w] = "get" /\ pc'[w] = "until") => (shuttingDown /\ queue = <<>>)]_vars
  /\ (shuttingDown ~> (crashed \/ \A w \in Workers : WorkerGone(w)))

\* C11 witness: the queue is shutting down, a key is still waiting and a worker
\* is in Get.
C11_Witness ==
  \E w \in Workers : shuttingDown /\ queue # <<>> /\ pc[w] = "get"

\* C11 as stated, in the form a finite run refutes: when the queue is shutting
\* down and no worker is left to call Get, no key is still waiting (every key
\* waiting at ShutDown was handed to a worker).
C11_Original ==
  (shuttingDown /\ \A w \in Workers : WorkerGone(w)) => queue = <<>>

\* What one notification for object o does to the queue: for an object that
\* yields key k, with the queue not shut down, k is marked and Add is noted
\* for it, k waits exactly once unless a worker holds it, and every other key
\* is as before; an object that yields no key leaves the queue as it was.
AddEffect(o) ==
  LET r == MetaNamespaceKeyFunc(o) IN
  IF r.err
  THEN UNCHANGED <<queue, dirty, processing, addCalls>>
  ELSE /\ processing' = processing
       /\ \A j \in Keys \ {r.key} :
            /\ Occurrences(queue', j) = Occurrences(queue, j)
            /\ (j \in dirty') = (j \in dirty)
            /\ addCalls'[j] = addCalls[j]
       /\ Len(queue') = Len(queue) + (IF r.key \in dirty \/ shuttingDown THEN 0 ELSE
                                       IF r.key \in processing THEN 0 ELSE 1)
       /\ ~shuttingDown =>
            /\ r.key \in dirty'
            /\ addCalls'[r.key] = "accepted"
            /\ Occurrences(queue', r.key) = (IF r.key \in processing THEN 0 ELSE 1)

\* C12: in every state of a live process, an Add notification for any object
\* and an Update notification for any two versions of a resource (equal
\* versions included) are handled, and their handling has the effect of one
\* Add of the object's key, or none at all for an object without a key.
C12_NotificationAddsKey ==
  ~crashed =>
    /\ \A o \in Objects : ENABLED (AddFunc(o) /\ AddEffect(o))
    /\ \A old \in Objects, new \in Objects :
         SameResource(old, new) => ENABLED (UpdateFunc(old, new) /\ AddEffect(new))

\* C12 witness: before Run is called, notifications have put every key on the
\* queue, each exactly once.
C12_Witness ==
  /\ runPc = "created"
  /\ Range(queue) = Keys
  /\ Len(queue) = Cardinality(Keys)
  /\ \A k \in Keys : k \in dirty /\ addCalls[k] = "accepted"

\* C13: a worker whose key does not split into namespace/name makes no lookup
\* (it never reaches the printing of the spec), calls Forget and nothing else
\* before Done, leaves no requeue in the rate limiter, and after Done the key
\* waits only if Add was called for it meanwhile.
C13_MalformedKeyDropped ==
  [][\A w \in Workers :
       /\ (InBlock(w)' /\ SplitMetaNamespaceKey(obj'[w]).err)
            => (outcome'[w] \in {"none", "invalidKey"} /\ pc'[w] \in {"sync", "forget", "done"})
       /\ (Releases(w) /\ SplitMetaNamespaceKey(obj[w]).err)
            => /\ outcome[w] = "invalidKey"
               /\ calls[w] = <<"Get", "Forget">>
               /\ failures'[obj[w]] = 0
               /\ (obj[w] \in Range(queue') => addCalls[obj[w]] = "accepted")]_vars

\* C13 witness: a key that does not split has been reported, Forget has been
\* called and Done is next.
C13_Witness ==
  \E w \in Workers :
    /\ pc[w] = "done"
    /\ SplitMetaNamespaceKey(obj[w]).err
    /\ outcome[w] = "invalidKey"
    /\ calls[w] = <<"Get", "Forget">>

\* C15 as stated: once WaitForCacheSync has returned true, Run is at the
\* launch of the workers (or past it), not in the install, the sleep or the
\* uninstall of the example.
C15_HelmDoesNotBlock ==
  runOk = "true" => runPc \notin {"helmInstall", "helmSleep", "helmUninstall"}

\* C16: a key no worker holds waits exactly once when Add was called for it
\* (any number of times) since Get last returned it, and neither waits nor is
\* marked otherwise; and with no key waiting and the queue not shutting down a
\* worker in Get stays blocked.
C16_PendingOnce ==
  /\ \A k \in Keys :
       k \notin processing =>
         IF addCalls[k] = "accepted"
         THEN Occurrences(queue, k) = 1 /\ k \in dirty
         ELSE k \notin Range(queue) /\ k \notin dirty
  /\ (queue = <<>> /\ ~shuttingDown) => \A w \in Workers : ~ENABLED Get(w)

\* C16 witness: a found resource has been reconciled, its key is neither
\* waiting nor marked, nothing else waits, and the other worker is blocked in
\* Get.
C16_Witness ==
  \E w1 \in Workers, w2 \in Workers :
    /\ pc[w1] = "done"
    /\ outcome[w1] = "found"
    /\ obj[w1] \notin dirty
    /\ queue = <<>>
    /\ ~shuttingDown
    /\ pc[w2] = "get"

\* The stage of the lifecycle Run is in: Created, Syncing, Running (from the
\* end of the wait for the cache to the wait for stopCh), Stopped.
Stage(p) ==
  CASE p = "created" -> 0
    [] p = "waitSync" -> 1
    [] p = "returned" -> 4
    [] OTHER -> 2

\* C17 as stated: Run never goes back to an earlier stage, and when Run returns
\* after the stop signal the queue is shut down and every worker has left its
\* loop.
C17_StoppedAfterWorkers ==
  [][/\ Stage(runPc') >= Stage(runPc)
     /\ (runPc # "returned" /\ runPc' = "returned" /\ runErr' = "nil")
          => (shuttingDown' /\ \A w \in Workers : pc'[w] = "exited")]_vars

\* C18: once Run has returned (its deferred ShutDown has run), an Add call
\* leaves the waiting, the marked and the processing keys as they were, and a
\* key for which Add was called only after ShutDown is neither waiting nor
\* marked.
C18_NoAddAfterShutDown ==
  [][\A k \in Keys :
       /\ (runPc = "returned" /\ addCalls'[k] # addCalls[k] /\ addCalls'[k] # "none")
            => (addCalls'[k] = "afterShutDown" /\ UNCHANGED <<queue, dirty, processing>>)
       /\ addCalls'[k] = "afterShutDown"
            => (k \notin Range(queue') /\ k \notin dirty')]_vars

\* C18 witness: Add was called after ShutDown for a key that a worker holds;
\* the key is not marked.
C18_Witness ==
  \E k \in Keys :
    /\ shuttingDown
    /\ addCalls[k] = "afterShutDown"
    /\ k \in processing
    /\ k \notin dirty

\* C19 as stated: syncHandler reaches the reading of submarine.Spec only when
\* the lookup found the resource.
C19_SpecReadOnlyWhenFound ==
  \A w \in Workers : pc[w] = "print" => outcome[w] = "found"

\* C20: the queue is shut down exactly when Run has returned, on the failed
\* wait for the cache as well as after the stop signal.
C20_ShutDownOnReturn ==
  shuttingDown <=> runPc = "returned"

\* C20 witness: Run has returned an error after the failed wait for the cache
\* and the queue is shut down.
C20_Witness ==
  runPc = "returned" /\ runErr = "error" /\ shuttingDown

\* Worker w is inside syncHandler for key k.
Reconciling(w, k) == InSyncHandler(w) /\ obj[w] = k

\* C14: a worker waiting in Get while a key waits can take the first waiting
\* key whatever the other workers hold; and, with every worker launched, each
\* waiting key eventually enters syncHandler unless the queue is shut down or
\* the process has died.
C14_DistinctKeysProgress ==
  /\ [](\A w \in Workers :
          (pc[w] = "get" /\ queue # <<>> /\ ~crashed)
            => ENABLED (Get(w) /\ obj'[w] = Head(queue)))
  /\ \A k \in Keys :
       (k \in Range(queue) /\ nextWorker = Threadiness)
         ~> ((\E w \in Workers : Reconciling(w, k)) \/ shuttingDown \/ crashed)

\* C14 witness: two workers are inside syncHandler at once, each for a key of
\* its own, with the queue not shut down.
C14_Witness ==
  \E w1 \in Workers, w2 \in Workers :
    /\ w1 # w2
    /\ obj[w1] # obj[w2]
    /\ Reconciling(w1, obj[w1])
    /\ Reconciling(w2, obj[w2])
    /\ ~shuttingDown
    /\ ~crashed

====
